---------------------------- MODULE Spec2Model ----------------------------
(***************************************************************************)
(* The structured console renderer of cucumber-rust                        *)
(* (src/src/output/default.rs, DefaultOutput) as a state machine.          *)
(*                                                                         *)
(* Two threads of control: the caller, which issues the OutputVisitor      *)
(* calls one after the other, and the repaint thread that visit_feature    *)
(* spawns and visit_feature_end joins.  Every visit_* handler is one       *)
(* atomic action, except visit_feature_end, which is cut where it blocks   *)
(* (the join) and after every buffer it prints, so that the repaint thread *)
(* can interleave with it.                                                 *)
(*                                                                         *)
(* A rule or a scenario is the integer that stands for its structural      *)
(* identity (name + position + contents: the derived Hash/Eq that the      *)
(* HashMap keys use).  Two declarations with the same integer are two      *)
(* structurally equal declarations.                                        *)
(***************************************************************************)
EXTENDS Integers, Sequences, FiniteSets, TLC

(***************************************************************************)
(* Bounds of the model.                                                    *)
(***************************************************************************)
\* number of distinct scenario identities
NScen == 2
\* number of distinct rule identities
NRules == 1
\* top-level scenarios a feature declares, at most
MaxTop == 1
\* scenarios a rule declares, at most
MaxNested == 1
\* steps every scenario declares (the length of its progress bar)
NSteps == 2
\* visit_feature calls of a run, at most
MaxFeatures == 2
\* visit_feature_error calls of a run, at most
MaxErrors == 1
\* visit_step calls of a run, at most
MaxSteps == 2
\* buffer writes of the run that compares the buffers of two rules, at most
MaxFrameBuf == 3
\* buffer writes of the run that keeps the calls about each entity, at most
MaxHistoryBuf == 3
\* calls about one rule or one scenario in the run that keeps them, at most
MaxHistory == 3
\* visit_rule_end calls of a run, at most
MaxRuleEnds == 1
\* units written to the buffers of a run, at most
MaxBuf == 2
\* frames the repaint thread draws per feature, at most
MaxRepaints == 1
\* steps of the run that follows one scenario through all its steps, at most
MaxScenarioSteps == 3
\* units written to the buffers of that run, at most
MaxScenarioBuf == 5
\* the terminal widths of the layout calls, at most
MaxWidth == 8
\* words of a message, and characters of a word, at most
MaxWords == 3
MaxWordLen == 3
\* characters of an annotation, and of an indent, at most
MaxCmtLen == 9
MaxIndent == 3
\* columns and rows of a step table, and characters of a cell, at most
MaxCols == 2
MaxRows == 2
MaxCellLen == 2

Scenarios == 1..NScen
Rules == 1..NRules
\* "no rule": the None of Option<&gherkin::Rule>
NoRule == 0
\* the feature files of the run: their relative paths
Paths == {1}
\* terminal widths and annotation lengths, in characters
Widths == {20}
LocLens == {5, 15}

(***************************************************************************)
(* The document model (gherkin::Feature), read-only input.                 *)
(***************************************************************************)
RECURSIVE SeqsUpTo(_, _)
SeqsUpTo(S, n) ==
  IF n = 0 THEN {<< >>}
  ELSE LET shorter == SeqsUpTo(S, n - 1)
       IN shorter \cup {Append(q, x) : q \in {p \in shorter : Len(p) = n - 1}, x \in S}

Range(q) == {q[i] : i \in 1..Len(q)}

RuleDecls == {[id |-> r, scenarios |-> ns] : r \in Rules, ns \in SeqsUpTo(Scenarios, MaxNested)}

AllDocs ==
  {[rules |-> rs, scenarios |-> ss] :
     rs \in SeqsUpTo(RuleDecls, NRules), ss \in SeqsUpTo(Scenarios, MaxTop)}

RECURSIVE Flatten(_)
\* the entities of a rule list in declaration order: each rule, then its scenarios
Flatten(rs) ==
  IF rs = << >> THEN << >>
  ELSE <<[kind |-> "rule", id |-> Head(rs).id, indent |-> 0,
           len |-> Len(Head(rs).scenarios)]>>
       \o [i \in 1..Len(Head(rs).scenarios) |->
             [kind |-> "scenario", id |-> Head(rs).scenarios[i], indent |-> 1,
              len |-> NSteps]]
       \o Flatten(Tail(rs))

\* the order in which visit_feature and visit_feature_end walk a feature
DocOrder(doc) ==
  Flatten(doc.rules)
  \o [i \in 1..Len(doc.scenarios) |->
        [kind |-> "scenario", id |-> doc.scenarios[i], indent |-> 0, len |-> NSteps]]

DeclaredRules(doc) == {e.id : e \in {x \in Range(DocOrder(doc)) : x.kind = "rule"}}
DeclaredScenarios(doc) == {e.id : e \in {x \in Range(DocOrder(doc)) : x.kind = "scenario"}}

\* no two declarations of the feature are structurally equal
Distinct(doc) ==
  \A i, j \in 1..Len(DocOrder(doc)) :
     (/\ DocOrder(doc)[i].kind = DocOrder(doc)[j].kind
      /\ DocOrder(doc)[i].id = DocOrder(doc)[j].id) => i = j

\* what the gherkin parser yields: the position is part of an entity's identity
ParsedDocs == {d \in AllDocs : Distinct(d)}

\* the rule a scenario is declared under (NoRule: top level, or not declared)
ParentOf(doc, s) ==
  IF \E i \in 1..Len(doc.rules) : s \in Range(doc.rules[i].scenarios)
  THEN doc.rules[CHOOSE i \in 1..Len(doc.rules) : s \in Range(doc.rules[i].scenarios)].id
  ELSE NoRule

NoDoc == [rules |-> << >>, scenarios |-> << >>, none |-> TRUE]

(***************************************************************************)
(* HashMap                                                                 *)
(***************************************************************************)
EmptyMap == [x \in {} |-> 0]
Insert(m, k, v) == [x \in DOMAIN m \cup {k} |-> IF x = k THEN v ELSE m[x]]
Remove(m, k) == [x \in DOMAIN m \ {k} |-> m[x]]

(***************************************************************************)
(* indicatif::ProgressBar, as far as the renderer drives it.               *)
(***************************************************************************)
sty_rule == <<"rule">>
sty_scenario(indent) == <<"scenario", indent>>
sty_scenario_finish(indent, icon) == <<"finish", indent, icon>>

NewBar(len, style) ==
  [len |-> len, pos |-> 0, style |-> style, msg |-> "starting", status |-> "InProgress"]
BarInc(pb) == [pb EXCEPT !.pos = @ + 1]
BarSetMessage(pb, m) == [pb EXCEPT !.msg = m]
BarSetStyle(pb, sty) == [pb EXCEPT !.style = sty]
BarFinish(pb) == [pb EXCEPT !.pos = pb.len, !.status = "DoneVisible"]
BarFinishWithMessage(pb, m) ==
  [pb EXCEPT !.pos = pb.len, !.msg = m, !.status = "DoneVisible"]
BarFinishAndClear(pb) == [pb EXCEPT !.pos = pb.len, !.status = "DoneHidden"]
BarIsFinished(pb) == pb.status # "InProgress"

VARIABLES
  pc,                  \* where the caller is: init, idle, fe_join, fe_flush, finished, panicked
  bg,                  \* the repaint thread: none, running, exited
  progress_handle,     \* TRUE: Some(JoinHandle)
  cur_feature,         \* the current feature's relative path (0: "")
  feature_count, feature_error_count, rule_count,
  step_count, skipped_count, fail_count,
  scenarios,           \* HashMap<Scenario, ScenarioResult>
  rules_progress,      \* HashMap<Rule, (ProgressBar, Buffer)>
  progress,            \* HashMap<Scenario, (ProgressBar, Buffer)>
  out,                 \* what stdout received since the last feature header
  repaints,            \* frames the repaint thread drew since the last feature header
  feature,             \* the feature between visit_feature and visit_feature_end
  flushed,             \* visit_feature_end: entities of DocOrder already retired
  pending,             \* the scenario whose step was announced and has no result yet
  written,             \* calls of the run that wrote to a buffer
  ended,               \* <<n, s>>: visit_scenario_end was called for s in the n-th
                       \* feature (kept by the runs that count scenarios, see scope)
  scope,               \* what the run may do: the features it may load, its budgets
  pass_results,        \* visit_step_result calls with TestResult::Pass so far (kept by the
                       \* runs that count them, see scope)
  history              \* the calls about each rule and each scenario so far, in the order
                       \* they came (kept by the runs that compare them, see scope)

counters ==
  <<feature_count, feature_error_count, rule_count, step_count, skipped_count, fail_count>>
maps == <<scenarios, rules_progress, progress>>
vars ==
  <<pc, bg, progress_handle, cur_feature, counters, maps, out, repaints, feature,
    flushed, pending, written, ended, scope, pass_results, history>>

\* a failed unwrap/expect, an out-of-range index, an arithmetic overflow: the process dies
Panic ==
  /\ pc' = "panicked"
  /\ UNCHANGED <<bg, progress_handle, cur_feature, counters, maps, out, repaints,
                 feature, flushed, pending, written, ended, scope, pass_results, history>>

InitWith(D) ==
  /\ pc = "init"
  /\ bg = "none"
  /\ progress_handle = FALSE
  /\ cur_feature = 0
  /\ feature_count = 0
  /\ feature_error_count = 0
  /\ rule_count = 0
  /\ step_count = 0
  /\ skipped_count = 0
  /\ fail_count = 0
  /\ scenarios = EmptyMap
  /\ rules_progress = EmptyMap
  /\ progress = EmptyMap
  /\ out = << >>
  /\ repaints = 0
  /\ feature = NoDoc
  /\ flushed = 0
  /\ pending = 0
  /\ written = 0
  /\ ended = {}
  /\ scope = D
  /\ pass_results = 0
  /\ history = EmptyMap

Scope(D, track) ==
  [docs |-> D, features |-> MaxFeatures, steps |-> MaxSteps, writes |-> MaxBuf,
   track |-> track]

\* the run over every feature the parser can yield
Init == InitWith(Scope(ParsedDocs, FALSE))

\* the run of a runner that walks features whose scenarios are all top-level, the
\* scenarios it ends counted
InitTotals == InitWith(Scope({d \in ParsedDocs : d.rules = << >>}, TRUE))

\* the run of a runner over one feature that declares one scenario, at top level or
\* under a rule, followed through all its steps
OneScenarioDoc == [rules |-> << >>, scenarios |-> <<1>>]
OneRuleDoc == [rules |-> <<[id |-> 1, scenarios |-> <<1>>]>>, scenarios |-> << >>]
InitScenario ==
  InitWith([docs |-> {OneScenarioDoc, OneRuleDoc}, features |-> 1, steps |-> MaxScenarioSteps,
            writes |-> MaxScenarioBuf, track |-> TRUE])

\* what a failed step captured: Vec<u8>, empty or not
Streams == [stdout : {"", "printed"}, stderr : {"", "logged"}]

\* the run of a runner over one feature that declares one scenario with one step,
\* which may fail with any captured streams
InitFailure ==
  InitWith([docs |-> {OneScenarioDoc}, features |-> 1, steps |-> 1, writes |-> MaxBuf,
            track |-> TRUE, captures |-> Streams])

\* the run of a runner over one feature that declares two rules with a scenario each,
\* or one scenario
TwoRulesDoc ==
  [rules |-> <<[id |-> 1, scenarios |-> <<1>>], [id |-> 2, scenarios |-> <<2>>]>>,
   scenarios |-> << >>]
InitFrame ==
  InitWith([docs |-> {TwoRulesDoc, OneScenarioDoc}, features |-> 1, steps |-> 1,
            writes |-> MaxFrameBuf, track |-> TRUE])

\* the run of any caller over one feature that declares a rule with a scenario and a
\* top-level scenario, the calls about each of the three kept
RuleAndScenarioDoc == [rules |-> <<[id |-> 1, scenarios |-> <<1>>]>>, scenarios |-> <<2>>]
InitHistories ==
  InitWith([docs |-> {RuleAndScenarioDoc}, features |-> 1, steps |-> 1,
            writes |-> MaxHistoryBuf, track |-> FALSE, histories |-> TRUE])

\* the run of any caller over one feature that declares one scenario, the results
\* that were Pass counted
InitResults ==
  InitWith([docs |-> {OneScenarioDoc}, features |-> 1, steps |-> MaxSteps, writes |-> MaxBuf,
            track |-> FALSE, results |-> TRUE])

\* the run over every feature a caller can build, structurally equal declarations included
InitDup == InitWith(Scope(AllDocs, FALSE))

visit_start ==
  /\ pc = "init"
  /\ pc' = "idle"
  /\ out' = Append(out, <<"banner">>)
  /\ UNCHANGED <<bg, progress_handle, cur_feature, counters, maps, repaints, feature,
                 flushed, pending, written, ended, scope, pass_results, history>>

(***************************************************************************)
(* visit_feature                                                           *)
(***************************************************************************)
\* relpath: canonicalize().expect(..) dies on a path that does not resolve
relpath(path) == IF path.exists THEN path.id ELSE -1

RECURSIVE InsertAll(_, _, _)
\* the insert loops of visit_feature: a later insert of an equal key replaces the pair
InsertAll(m, order, kind) ==
  IF order = << >> THEN m
  ELSE LET e == Head(order)
           style == IF kind = "rule" THEN sty_rule ELSE sty_scenario(e.indent)
       IN InsertAll(IF e.kind = kind
                    THEN Insert(m, e.id, [pb |-> NewBar(e.len, style), buf |-> << >>])
                    ELSE m,
                    Tail(order), kind)

visit_feature(doc, path) ==
  /\ pc = "idle"
  /\ feature = NoDoc
  /\ feature_count < scope.features
  /\ bg \in {"none", "exited"}          \* self.multi.lock(): the repaint thread holds it
  /\ IF relpath(path) = -1
     THEN Panic
     ELSE /\ out' = <<<<"feature", relpath(path)>>>>
          /\ cur_feature' = relpath(path)
          /\ feature_count' = feature_count + 1
          /\ rules_progress' = InsertAll(EmptyMap, DocOrder(doc), "rule")
          /\ progress' = InsertAll(EmptyMap, DocOrder(doc), "scenario")
          /\ progress_handle' = TRUE
          /\ bg' = "running"
          /\ repaints' = 0
          /\ feature' = doc
          /\ flushed' = 0
          /\ UNCHANGED <<pc, feature_error_count, rule_count, step_count, skipped_count,
                         fail_count, scenarios, pending, written, ended, scope, pass_results, history>>

(***************************************************************************)
(* The repaint thread: multi.lock().unwrap().join_and_clear().unwrap()     *)
(***************************************************************************)
Bars == {rules_progress[r].pb : r \in DOMAIN rules_progress}
          \cup {progress[s].pb : s \in DOMAIN progress}

bgUnchanged ==
  UNCHANGED <<pc, progress_handle, cur_feature, counters, maps, out, feature, flushed,
              pending, written, ended, scope, pass_results, history>>

\* join_and_clear draws the rows for as long as one of them is not finished
RepaintDraw ==
  /\ bg = "running"
  /\ \E pb \in Bars : ~BarIsFinished(pb)
  /\ repaints < MaxRepaints
  /\ repaints' = repaints + 1
  /\ UNCHANGED bg
  /\ bgUnchanged

\* join_and_clear returns when every row is finished
RepaintExit ==
  /\ bg = "running"
  /\ \A pb \in Bars : BarIsFinished(pb)
  /\ bg' = "exited"
  /\ UNCHANGED repaints
  /\ bgUnchanged

(***************************************************************************)
(* visit_feature_end                                                       *)
(***************************************************************************)
\* progress_handle.take(), then handle.join()
visit_feature_end_call ==
  /\ pc = "idle"
  /\ feature # NoDoc
  /\ pc' = IF progress_handle THEN "fe_join" ELSE "fe_flush"
  /\ progress_handle' = FALSE
  /\ flushed' = 0
  /\ UNCHANGED <<bg, cur_feature, counters, maps, out, repaints, feature, pending,
                 written, ended, scope, pass_results, history>>

\* a visit_feature_end that does not wait for the repaint thread
JoinedWithoutWaiting == TRUE

\* handle.join() returns when the thread has exited
Joined == bg = "exited"

visit_feature_end_join ==
  /\ pc = "fe_join"
  /\ Joined
  /\ pc' = "fe_flush"
  /\ UNCHANGED <<bg, progress_handle, cur_feature, counters, maps, out, repaints,
                 feature, flushed, pending, written, ended, scope, pass_results, history>>

\* a visit_feature_end that prints the top-level scenarios before the rules
FlushTopLevelFirst(doc) ==
  [i \in 1..Len(doc.scenarios) |->
     [kind |-> "scenario", id |-> doc.scenarios[i], indent |-> 0, len |-> NSteps]]
  \o Flatten(doc.rules)

\* the order of the loops of lines 466-479
FlushOrder(doc) == DocOrder(doc)

\* one turn of the loops: remove(..).unwrap(), then stdout.print(&buffer)
visit_feature_end_flush ==
  /\ pc = "fe_flush"
  /\ flushed < Len(FlushOrder(feature))
  /\ LET e == FlushOrder(feature)[flushed + 1]
     IN IF e.kind = "rule"
        THEN IF e.id \in DOMAIN rules_progress
             THEN /\ out' = Append(out, <<"rule", e.id, rules_progress[e.id].buf>>)
                  /\ rules_progress' = Remove(rules_progress, e.id)
                  /\ flushed' = flushed + 1
                  /\ UNCHANGED <<pc, bg, progress_handle, cur_feature, counters, scenarios,
                                 progress, repaints, feature, pending, written, ended, scope, pass_results, history>>
             ELSE Panic
        ELSE IF e.id \in DOMAIN progress
             THEN /\ out' = Append(out, <<"scenario", e.id, progress[e.id].buf>>)
                  /\ progress' = Remove(progress, e.id)
                  /\ flushed' = flushed + 1
                  /\ UNCHANGED <<pc, bg, progress_handle, cur_feature, counters, scenarios,
                                 rules_progress, repaints, feature, pending, written, ended, scope, pass_results, history>>
             ELSE Panic

\* rules_progress.clear(); progress.clear(); return
visit_feature_end_return ==
  /\ pc = "fe_flush"
  /\ flushed = Len(FlushOrder(feature))
  /\ rules_progress' = EmptyMap
  /\ progress' = EmptyMap
  /\ pc' = "idle"
  /\ feature' = NoDoc
  /\ pending' = 0
  /\ UNCHANGED <<bg, progress_handle, cur_feature, counters, scenarios, out, repaints,
                 flushed, written, ended, scope, pass_results, history>>

(***************************************************************************)
(* Buffers: a termcolor::Buffer is the sequence of the units written to it *)
(***************************************************************************)
\* writeln_cmt: a message, laid out at an indent, with its "<path>:<l>:<c>" annotation
Unit(kind, indent, cmt) == <<kind, indent, cmt>>
\* writeln / println / write: a line without an annotation
Plain(kind) == <<kind>>

\* a write to one buffer shared by the rows, which numbers what it receives
WriteNumbered(entry, units) == [entry EXCEPT !.buf = @ \o units \o <<<<"Seq", written>>>>]

Write(entry, units) == [entry EXCEPT !.buf = @ \o units]

\* the run's budget of buffer writes is not used up
HasRoom == written < scope.writes

\* what a call may pass as rule: the rule the scenario is declared under
RuleArgs(s) ==
  IF s \in DeclaredScenarios(feature)
  THEN {ParentOf(feature, s)}
  ELSE {NoRule} \cup DeclaredRules(feature)

InFeature == pc = "idle" /\ feature # NoDoc

\* the scenarios a call may be about: a runner that walks the feature passes the
\* scenarios the feature declares, any other caller of the trait passes any scenario
Subjects == IF scope.track THEN DeclaredScenarios(feature) ELSE Scenarios
\* the rules a call may be about: any rule, and the rules the feature declares
RuleSubjects == Rules \cup DeclaredRules(feature)

\* the run keeps the calls about each entity
KeepsHistories == "histories" \in DOMAIN scope
HistoryOf(k) == IF k \in DOMAIN history THEN history[k] ELSE << >>
\* the call `event` about the rule or the scenario k is delivered
Records(k, event) ==
  IF KeepsHistories
  THEN /\ Len(HistoryOf(k)) < MaxHistory
       /\ history' = Insert(history, k, Append(HistoryOf(k), event))
  ELSE UNCHANGED history

\* a runner reports the result of a step before its next call about the scenario
\* or the feature; any other caller need not
Reported == scope.track => pending = 0

(***************************************************************************)
(* visit_rule, visit_rule_end                                              *)
(***************************************************************************)
\* a visit_rule that counts the rule when it begins
visit_rule_counting(rule) ==
  /\ InFeature
  /\ IF rule \notin DOMAIN rules_progress
     THEN Panic
     ELSE /\ HasRoom
          /\ rules_progress' =
               [rules_progress EXCEPT ![rule] = Write(@, <<Unit("Rule", 1, cur_feature)>>)]
          /\ written' = written + 1
          /\ rule_count' = rule_count + 1
          /\ UNCHANGED <<pc, bg, progress_handle, cur_feature, feature_count,
                         feature_error_count, step_count, skipped_count, fail_count,
                         scenarios, progress, out, repaints, feature, flushed, pending,
                         ended, scope, pass_results, history>>

\* a visit_rule that writes the header to one buffer shared by all the rules
visit_rule_shared(rule) ==
  /\ InFeature
  /\ IF rule \notin DOMAIN rules_progress
     THEN Panic
     ELSE /\ HasRoom
          /\ rules_progress' =
               [q \in DOMAIN rules_progress |->
                  Write(rules_progress[q], <<Unit("Rule", 1, cur_feature)>>)]
          /\ written' = written + 1
          /\ UNCHANGED <<pc, bg, progress_handle, cur_feature, counters, scenarios,
                         progress, out, repaints, feature, flushed, pending, ended,
                         scope, pass_results, history>>

visit_rule(rule) ==
  /\ InFeature
  /\ IF rule \notin DOMAIN rules_progress
     THEN Panic
     ELSE /\ HasRoom
          /\ rules_progress' =
               [rules_progress EXCEPT ![rule] = Write(@, <<Unit("Rule", 1, cur_feature)>>)]
          /\ written' = written + 1
          /\ UNCHANGED <<pc, bg, progress_handle, cur_feature, counters, scenarios,
                         progress, out, repaints, feature, flushed, pending, ended,
                         scope, pass_results>>
          /\ Records(<<"rule", rule>>, [ev |-> "rule"])

visit_rule_end(rule) ==
  /\ InFeature
  /\ rule_count < MaxRuleEnds
  /\ rule_count' = rule_count + 1
  /\ IF rule \notin DOMAIN rules_progress
     THEN /\ pc' = "panicked"
          /\ UNCHANGED rules_progress
     ELSE /\ rules_progress' = [rules_progress EXCEPT ![rule].pb = BarFinish(@)]
          /\ UNCHANGED pc
  /\ UNCHANGED <<bg, progress_handle, cur_feature, feature_count, feature_error_count,
                 step_count, skipped_count, fail_count, scenarios, progress, out,
                 repaints, feature, flushed, pending, written, ended, scope, pass_results>>
  /\ Records(<<"rule", rule>>, [ev |-> "rule_end"])

(***************************************************************************)
(* visit_scenario, visit_scenario_skipped, visit_scenario_end              *)
(***************************************************************************)
visit_scenario(rule, s) ==
  /\ InFeature
  /\ IF s \notin DOMAIN progress
     THEN UNCHANGED <<pc, progress, rules_progress, written>>
     ELSE /\ HasRoom
          /\ written' = written + 1
          /\ progress' =
               [progress EXCEPT ![s] =
                  Write(@, <<Unit("Scenario", IF rule # NoRule THEN 2 ELSE 1, cur_feature)>>)]
          /\ IF rule = NoRule
             THEN UNCHANGED <<pc, rules_progress>>
             ELSE IF rule \notin DOMAIN rules_progress
                  THEN pc' = "panicked" /\ UNCHANGED rules_progress
                  ELSE /\ rules_progress' = [rules_progress EXCEPT ![rule].pb = BarInc(@)]
                       /\ UNCHANGED pc
  /\ UNCHANGED <<bg, progress_handle, cur_feature, counters, scenarios, out, repaints,
                 feature, flushed, pending, ended, scope, pass_results>>
  /\ Records(<<"scenario", s>>, [ev |-> "scenario", rule |-> rule])

\* a visit_scenario_skipped that records Skip for a scenario without an outcome
\* (the code that lines 608-615 keep as a comment)
visit_scenario_skipped_recording(rule, s) ==
  /\ InFeature
  /\ scenarios' = IF s \in DOMAIN scenarios THEN scenarios ELSE Insert(scenarios, s, "Skip")
  /\ UNCHANGED <<pc, bg, progress_handle, cur_feature, counters, rules_progress, progress,
                 out, repaints, feature, flushed, pending, written, ended, scope, pass_results, history>>

visit_scenario_skipped(rule, s) ==
  /\ InFeature
  /\ UNCHANGED <<pc, bg, progress_handle, cur_feature, counters, maps, out, repaints,
                 feature, flushed, pending, written, ended, scope, pass_results>>
  /\ Records(<<"scenario", s>>, [ev |-> "scenario_skipped", rule |-> rule])

\* a visit_scenario_end that records Pass whatever was recorded before
RecordPassAlways(m, s) == Insert(m, s, "Pass")

\* lines 619-624: the optimistic default
RecordPass(m, s) == IF s \in DOMAIN m THEN m ELSE Insert(m, s, "Pass")

\* a visit_scenario_end that shows every scenario as passed
IconAlwaysPass(status) == <<"pass", "passed">>

\* lines 634-638
Icon(status) ==
  IF status = "Pass" THEN <<"pass", "passed">>
  ELSE IF status = "Fail" THEN <<"fail", "failed">>
  ELSE <<"skip", "skipped">>

visit_scenario_end(rule, s) ==
  /\ InFeature
  /\ scenarios' = RecordPass(scenarios, s)
  /\ IF s \notin DOMAIN progress
     THEN UNCHANGED <<progress, written>>
     ELSE /\ HasRoom
          /\ written' = written + 1
          /\ LET status == scenarios'[s]
                 indent == IF rule # NoRule THEN 1 ELSE 0
             IN progress' =
                  [progress EXCEPT
                     ![s] = [pb |-> BarFinishWithMessage(
                                      BarSetStyle(@.pb,
                                                  sty_scenario_finish(indent, Icon(status)[1])),
                                      Icon(status)[2]),
                             buf |-> @.buf \o <<Plain("")>>]]
  /\ ended' = IF scope.track THEN ended \cup {<<feature_count, s>>} ELSE ended
  /\ UNCHANGED <<pc, bg, progress_handle, cur_feature, counters, rules_progress, out,
                 repaints, feature, flushed, pending, scope, pass_results>>
  /\ Records(<<"scenario", s>>, [ev |-> "scenario_end", rule |-> rule])

(***************************************************************************)
(* visit_step, visit_step_resolved, visit_step_result                      *)
(***************************************************************************)
visit_step(rule, s) ==
  /\ InFeature
  /\ step_count < scope.steps
  /\ step_count' = step_count + 1
  /\ pending' = s
  /\ IF s \notin DOMAIN progress
     THEN UNCHANGED progress
     ELSE progress' = [progress EXCEPT ![s].pb = BarInc(BarSetMessage(@, "Step"))]
  /\ UNCHANGED <<pc, bg, progress_handle, cur_feature, feature_count, feature_error_count,
                 rule_count, skipped_count, fail_count, scenarios, rules_progress, out,
                 repaints, feature, flushed, written, ended, scope, pass_results>>
  /\ Records(<<"scenario", s>>, [ev |-> "step", rule |-> rule])

\* a visit_step_resolved that prints a line for the step as soon as it is matched
visit_step_resolved_printing ==
  /\ InFeature
  /\ pending # 0
  /\ Len(out) = 1
  /\ out' = Append(out, <<"scenario", pending, <<Plain("Step")>>>>)
  /\ UNCHANGED <<pc, bg, progress_handle, cur_feature, counters, maps, repaints,
                 feature, flushed, pending, written, ended, scope, pass_results, history>>

visit_step_resolved ==
  /\ InFeature
  /\ pending # 0
  /\ UNCHANGED <<pc, bg, progress_handle, cur_feature, counters, maps, out, repaints,
                 feature, flushed, pending, written, ended, scope, pass_results, history>>

TestResults == {"Pass", "Fail", "Skipped", "Unimplemented"}

\* a visit_step_result that writes no marker for a step that is not implemented
ResultUnitsUnmarked(res, indent, cmt) ==
  IF res = "Pass" THEN <<Unit("StepPass", indent, cmt)>>
  ELSE IF res = "Fail" THEN <<Unit("StepFail", indent, cmt), Plain("Diagnostics")>>
  ELSE <<Unit("StepSkip", indent, cmt)>>

\* the units one result appends to the scenario's buffer (lines 691-822)
ResultUnits(res, indent, cmt) ==
  IF res = "Pass" THEN <<Unit("StepPass", indent, cmt)>>
  ELSE IF res = "Fail" THEN <<Unit("StepFail", indent, cmt), Plain("Diagnostics")>>
  ELSE IF res = "Skipped" THEN <<Unit("StepSkip", indent, cmt)>>
  ELSE <<Unit("StepSkip", indent, cmt), Plain("NotImplemented")>>

\* lines 784-788
RecordFail(m, s) == Insert(m, s, "Fail")

\* a step skipped after a failure counted as a failure too
FailCountAfterSkipToo(res, n) == IF res \in {"Fail", "Skipped"} THEN n + 1 ELSE n

\* line 784
FailCountAfter(res, n) == IF res = "Fail" THEN n + 1 ELSE n

\* a failed step counted as skipped as well
SkippedCountAfterAnyNonPass(res, n) == IF res # "Pass" THEN n + 1 ELSE n

\* lines 800 and 820
SkippedCountAfter(res, n) == IF res \in {"Skipped", "Unimplemented"} THEN n + 1 ELSE n

\* the captures of the failures of the run
Captures ==
  IF "captures" \in DOMAIN scope THEN scope.captures ELSE {[stdout |-> "", stderr |-> ""]}

\* lines 737-782: the labelled sections of the streams that are not empty (line 748
\* fills the section labelled stdout from captured_stderr), then the closing rule
CapturedSections(captured_stdout, captured_stderr) ==
  (IF captured_stdout # ""
   THEN <<Plain("Captured stdout"), <<"Text", captured_stderr>>>>
   ELSE << >>)
  \o (IF captured_stderr # ""
      THEN <<Plain("Captured stderr"), <<"Text", captured_stderr>>>>
      ELSE << >>)
  \o <<Plain("Rule")>>

\* the run keeps the number of the results that were Pass
CountsResults == "results" \in DOMAIN scope

visit_step_result_captured(rule, s, res, captured_stdout, captured_stderr) ==
  /\ InFeature
  /\ pending = s
  /\ pending' = 0
  /\ pass_results' = IF res = "Pass" /\ CountsResults THEN pass_results + 1 ELSE pass_results
  /\ IF s \notin DOMAIN progress
     THEN UNCHANGED <<progress, fail_count, skipped_count, scenarios, written>>
     ELSE /\ HasRoom
          /\ written' = written + 1
          /\ LET indent == IF rule # NoRule THEN 3 ELSE 2
                 item == IF res = "Fail"
                         THEN [progress[s] EXCEPT !.pb = BarFinishAndClear(@)]
                         ELSE progress[s]
             IN progress' =
                  [progress EXCEPT
                     ![s] = Write(item,
                                  ResultUnits(res, indent, cur_feature)
                                  \o IF res = "Fail"
                                     THEN CapturedSections(captured_stdout, captured_stderr)
                                     ELSE << >>)]
          /\ fail_count' = FailCountAfter(res, fail_count)
          /\ scenarios' = IF res = "Fail" THEN RecordFail(scenarios, s) ELSE scenarios
          /\ skipped_count' = SkippedCountAfter(res, skipped_count)
  /\ UNCHANGED <<pc, bg, progress_handle, cur_feature, feature_count, feature_error_count,
                 rule_count, step_count, rules_progress, out, repaints, feature, flushed,
                 ended, scope>>
  /\ Records(<<"scenario", s>>,
             [ev |-> "step_result", rule |-> rule, res |-> res,
              captured_stdout |-> captured_stdout, captured_stderr |-> captured_stderr])

\* TestResult::Fail carries the captured streams, the other results carry nothing
visit_step_result(rule, s, res) ==
  \E cap \in IF res = "Fail" THEN Captures ELSE {[stdout |-> "", stderr |-> ""]} :
     visit_step_result_captured(rule, s, res, cap.stdout, cap.stderr)

(***************************************************************************)
(* visit_feature_error                                                     *)
(***************************************************************************)
ErrorKinds == {"Parsing", "Io"}

\* usize subtraction: a negative difference panics (debug) or wraps to a width no
\* allocation can hold (release); either way the process dies
Underflows(a, b) == a - b < 0

visit_feature_error(kind, path, loclen, tw) ==
  /\ pc = "idle"
  /\ feature = NoDoc
  /\ feature_error_count < MaxErrors
  /\ IF relpath(path) = -1 \/ Underflows(tw - loclen, 7)
     THEN Panic
     ELSE /\ out' = Append(out, <<"error", kind, relpath(path)>>)
          /\ feature_error_count' = feature_error_count + 1
          /\ UNCHANGED <<pc, bg, progress_handle, cur_feature, feature_count, rule_count,
                         step_count, skipped_count, fail_count, maps, repaints, feature,
                         flushed, pending, written, ended, scope, pass_results, history>>

(***************************************************************************)
(* visit_finish: print_finish                                              *)
(***************************************************************************)
Count(m, v) == Cardinality({k \in DOMAIN m : m[k] = v})

\* u32 subtraction as the release build computes it: a negative difference wraps
\* to 2^32 - (b - a), written <<"2^32 -", b - a>>
WrappingSub(a, b) == IF a >= b THEN a - b ELSE <<"2^32 -", b - a>>

\* lines 238-256: "<N> features", " (<E> errored)" and ", <R> rules" when there are any
print_finish_features(n, errored, nrules) ==
  ToString(n) \o " features"
  \o (IF errored > 0 THEN " (" \o ToString(errored) \o " errored" \o ")" ELSE "")
  \o (IF nrules > 0 THEN ", " \o ToString(nrules) \o " rules" ELSE "")

\* a summary that leaves "0 passed" out
print_finish_counts_no_zero(failed, skipped, passed) ==
  (IF failed > 0 THEN ToString(failed) \o " failed" ELSE "")
  \o (IF skipped > 0
      THEN (IF failed > 0 THEN ", " ELSE "") \o ToString(skipped) \o " skipped"
      ELSE "")
  \o (IF passed = 0 THEN ""
      ELSE (IF failed > 0 \/ skipped > 0 THEN ", " ELSE "") \o ToString(passed) \o " passed")

\* lines 299-319 and 335-356: what stands between the parentheses
print_finish_counts(failed, skipped, passed) ==
  (IF failed > 0 THEN ToString(failed) \o " failed" ELSE "")
  \o (IF skipped > 0
      THEN (IF failed > 0 THEN ", " ELSE "") \o ToString(skipped) \o " skipped"
      ELSE "")
  \o (IF failed > 0 \/ skipped > 0 THEN ", " ELSE "")
  \o ToString(passed) \o " passed"

\* the summary print_finish writes, passed_count being step_count - skipped_count -
\* fail_count on u32
print_finish(passed_count) ==
  [text |->
     << print_finish_features(feature_count, feature_error_count, rule_count),
        ToString(Cardinality(DOMAIN scenarios)) \o " scenarios ("
          \o print_finish_counts(Count(scenarios, "Fail"), Count(scenarios, "Skip"),
                                 Count(scenarios, "Pass"))
          \o ")",
        ToString(step_count) \o " steps ("
          \o print_finish_counts(fail_count, skipped_count, passed_count)
          \o ")" >>,
   features |-> feature_count,
   errored |-> feature_error_count,
   rules |-> rule_count,
   scenarios |-> Cardinality(DOMAIN scenarios),
   scenario_failed |-> Count(scenarios, "Fail"),
   scenario_skipped |-> Count(scenarios, "Skip"),
   scenario_passed |-> Count(scenarios, "Pass"),
   steps |-> step_count,
   step_failed |-> fail_count,
   step_skipped |-> skipped_count,
   step_passed |-> passed_count]

visit_finish ==
  /\ pc = "idle"
  /\ feature = NoDoc
  /\ LET diff == step_count - skipped_count - fail_count
     IN \E build \in {"debug", "release"} :
          IF diff < 0 /\ build = "debug"
          THEN Panic
          ELSE /\ out' = Append(out, <<"summary",
                                       print_finish(WrappingSub(step_count,
                                                                skipped_count + fail_count))>>)
               /\ pc' = "finished"
               /\ UNCHANGED <<bg, progress_handle, cur_feature, counters, maps, repaints,
                              feature, flushed, pending, written, ended, scope, pass_results, history>>

(***************************************************************************)
(* The run                                                                 *)
(***************************************************************************)
\* a feature that was parsed comes from a file that exists
FeaturePaths == {[id |-> p, exists |-> TRUE] : p \in Paths}
\* a parse error comes from a file that was read; an I/O error may come from one
\* that is not there
ErrorPaths(kind) ==
  {[id |-> p, exists |-> x] : p \in Paths, x \in IF kind = "Io" THEN BOOLEAN ELSE {TRUE}}

Next ==
  \/ visit_start
  \/ \E doc \in scope.docs, path \in FeaturePaths : visit_feature(doc, path)
  \/ RepaintDraw
  \/ RepaintExit
  \/ Reported /\ visit_feature_end_call
  \/ visit_feature_end_join
  \/ visit_feature_end_flush
  \/ visit_feature_end_return
  \/ \E kind \in ErrorKinds, loclen \in LocLens, tw \in Widths :
       \E path \in ErrorPaths(kind) : visit_feature_error(kind, path, loclen, tw)
  \/ \E rule \in RuleSubjects : visit_rule(rule)
  \/ \E rule \in RuleSubjects : visit_rule_end(rule)
  \/ \E s \in Subjects : \E rule \in RuleArgs(s) : visit_scenario(rule, s)
  \/ \E s \in Subjects : \E rule \in RuleArgs(s) : visit_scenario_skipped(rule, s)
  \/ \E s \in Subjects : \E rule \in RuleArgs(s) : visit_scenario_end(rule, s)
  \/ Reported /\ \E s \in Subjects : \E rule \in RuleArgs(s) : visit_step(rule, s)
  \/ visit_step_resolved
  \/ \E s \in Subjects, res \in TestResults :
       \E rule \in RuleArgs(s) : visit_step_result(rule, s, res)
  \/ visit_finish

Spec == Init /\ [][Next]_vars

SpecTotals == InitTotals /\ [][Next]_vars

SpecDup == InitDup /\ [][Next]_vars

SpecScenario == InitScenario /\ [][Next]_vars

SpecFailure == InitFailure /\ [][Next]_vars

SpecResults == InitResults /\ [][Next]_vars

SpecFrame == InitFrame /\ [][Next]_vars

SpecHistories == InitHistories /\ [][Next]_vars

(***************************************************************************)
(* wrap_with_comment and writeln_cmt, applied to one message.  A text is   *)
(* the sequence of its characters: "x" a character of a word, " " a space, *)
(* "#" a character of the annotation.  A message is given by the lengths   *)
(* of its words, which single spaces separate.                             *)
(***************************************************************************)
Repeat(ch, n) == [i \in 1..n |-> ch]

\* usize::saturating_sub
saturating_sub(a, b) == IF a >= b THEN a - b ELSE 0

\* a width that usize subtraction wrapped to: no message reaches it
WrappedWidth == 1000

\* textwrap::wrap_iter(s, w), w >= 1: words fill a line while they fit, a word
\* longer than the line is broken, the space a line would end with is dropped
RECURSIVE wrap_iter(_, _, _)
wrap_iter(words, w, cur) ==
  IF words = << >> THEN (IF cur = << >> THEN << >> ELSE <<cur>>)
  ELSE IF cur = << >>
       THEN IF Head(words) <= w
            THEN wrap_iter(Tail(words), w, Repeat("x", Head(words)))
            ELSE <<Repeat("x", w)>> \o wrap_iter(<<Head(words) - w>> \o Tail(words), w, << >>)
       ELSE IF Len(cur) + 1 + Head(words) <= w
            THEN wrap_iter(Tail(words), w, cur \o <<" ">> \o Repeat("x", Head(words)))
            ELSE <<cur>> \o wrap_iter(words, w, << >>)

\* a layout that leaves a gap of one character for the annotation
comment_space_one(tw, c) == saturating_sub(saturating_sub(tw, c), 1)

\* line 85
comment_space(tw, c) == saturating_sub(saturating_sub(tw, c), 2)

\* lines 78-95; w is the width the message was wrapped at
wrap_with_comment(words, c, indent, tw, w) ==
  LET cs == [i \in 1..Len(wrap_iter(words, w, << >>)) |->
               Repeat(" ", indent) \o wrap_iter(words, w, << >>)[i]]
      last_count == Len(cs[Len(cs)])
  IN IF last_count > comment_space(tw, c)
     THEN Append(cs, Repeat(" ", comment_space(tw, c)))
     ELSE [cs EXCEPT ![Len(cs)] = @ \o Repeat(" ", comment_space(tw, c) - last_count)]

\* lines 124-142: the lines the call adds to the buffer
writeln_cmt(words, c, indent, tw, w) ==
  LET ls == wrap_with_comment(words, c, indent, tw, w)
  IN [ls EXCEPT ![Len(ls)] = @ \o <<" ">> \o Repeat("#", c)]

\* the messages, annotations, indents and terminal widths of the calls
Messages == UNION {[1..n -> 1..MaxWordLen] : n \in 1..MaxWords}
LayoutCalls ==
  [s : Messages, cmt : 0..MaxCmtLen, indent : 0..MaxIndent, tw : 1..MaxWidth,
   build : {"debug", "release"}]

\* one call of writeln_cmt on an empty buffer; a call whose message would be
\* wrapped at width 0 is left out
InitLayout ==
  \E call \in LayoutCalls : call.tw # call.indent /\ InitWith(call)

\* line 80: tw - indent.chars().count() on usize panics in a debug build when it
\* goes below zero and wraps in a release build
call_writeln_cmt ==
  /\ pc = "init"
  /\ IF Underflows(scope.tw, scope.indent) /\ scope.build = "debug"
     THEN Panic
     ELSE /\ pc' = "returned"
          /\ LET w == IF Underflows(scope.tw, scope.indent)
                      THEN WrappedWidth
                      ELSE scope.tw - scope.indent
             IN out' = <<[w |-> w,
                          lines |-> writeln_cmt(scope.s, scope.cmt, scope.indent,
                                                scope.tw, w)]>>
          /\ UNCHANGED <<bg, progress_handle, cur_feature, counters, maps, repaints,
                         feature, flushed, pending, written, ended, scope, pass_results, history>>

NextLayout == call_writeln_cmt

SpecLayout == InitLayout /\ [][NextLayout]_vars

(***************************************************************************)
(* print_step_extras, applied to one step table.  A cell is its length and *)
(* whether it parses as f64; its text is that many "9" or "a".             *)
(***************************************************************************)
Cells ==
  {[len |-> n, numeric |-> b] : n \in 0..MaxCellLen, b \in BOOLEAN} \ {[len |-> 0, numeric |-> TRUE]}
TableRows == UNION {[1..n -> Cells] : n \in 1..MaxCols}
\* header and rows as the parser collects them: nothing makes a row as long as the header
Tables == [header : TableRows, rows : UNION {[1..n -> TableRows] : n \in 0..MaxRows}]

CellText(cell) == Repeat(IF cell.numeric THEN "9" ELSE "a", cell.len)

\* format!(" {: <1$} ", field, width) and format!(" {: >1$} ", field, width)
PadLeftAligned(cell, width) ==
  <<" ">> \o CellText(cell) \o Repeat(" ", saturating_sub(width, cell.len)) \o <<" ">>
PadRightAligned(cell, width) ==
  <<" ">> \o Repeat(" ", saturating_sub(width, cell.len)) \o CellText(cell) \o <<" ">>

\* lines 172-181: max_size starts as the header's lengths; each row raises it
RECURSIVE max_size(_, _)
max_size(header, rows) ==
  IF rows = << >> THEN [n \in 1..Len(header) |-> header[n].len]
  ELSE LET before == max_size(header, SubSeq(rows, 1, Len(rows) - 1))
           row == rows[Len(rows)]
       IN [n \in 1..Len(header) |->
             IF n <= Len(row) /\ row[n].len > before[n] THEN row[n].len ELSE before[n]]

\* max_size[n] is indexed by the position of the field in its row (lines 177, 194)
IndexOutOfBounds(table) == \E i \in 1..Len(table.rows) : Len(table.rows[i]) > Len(table.header)

\* a table whose numeric cells are laid out like the others
format_row_field_left(cell, width) == PadLeftAligned(cell, width)

\* lines 193-197
format_row_field(cell, width) ==
  IF cell.numeric THEN PadRightAligned(cell, width) ELSE PadLeftAligned(cell, width)

\* lines 203-220: a line is the indent, "|", and each field followed by "|"
RECURSIVE TableLine(_)
TableLine(fields) ==
  IF fields = << >> THEN <<Repeat(" ", 6), <<"|">>>>
  ELSE TableLine(SubSeq(fields, 1, Len(fields) - 1)) \o <<fields[Len(fields)], <<"|">>>>

\* lines 169-224, for a step that has a table and no docstring
print_step_extras(table) ==
  LET sizes == max_size(table.header, table.rows)
  IN <<TableLine([n \in 1..Len(table.header) |-> PadLeftAligned(table.header[n], sizes[n])])>>
     \o [i \in 1..Len(table.rows) |->
           TableLine([n \in 1..Len(table.rows[i]) |->
                        format_row_field(table.rows[i][n], sizes[n])])]

\* header lengths 1, 5, 3 and the row "10", "abc", "2"
ExampleTable ==
  [header |-> <<[len |-> 1, numeric |-> FALSE], [len |-> 5, numeric |-> FALSE],
                [len |-> 3, numeric |-> FALSE]>>,
   rows |-> << <<[len |-> 2, numeric |-> TRUE], [len |-> 3, numeric |-> FALSE],
                 [len |-> 1, numeric |-> TRUE]>> >>]

InitTable == \E table \in Tables \cup {ExampleTable} : InitWith([table |-> table])

call_print_step_extras ==
  /\ pc = "init"
  /\ IF IndexOutOfBounds(scope.table)
     THEN Panic
     ELSE /\ pc' = "returned"
          /\ out' = print_step_extras(scope.table)
          /\ UNCHANGED <<bg, progress_handle, cur_feature, counters, maps, repaints,
                         feature, flushed, pending, written, ended, scope, pass_results, history>>

NextTable == call_print_step_extras

SpecTable == InitTable /\ [][NextTable]_vars

(***************************************************************************)
(* Locks: what each call acquires and releases, in the order of its code   *)
(***************************************************************************)
\* a guard bound with `let` lives to the end of the call, a guard that is a
\* temporary of a statement is dropped when the statement ends
Lock(l, mode) == <<"lock", l, mode>>
Unlock(l) == <<"unlock", l>>
Temp(l, mode) == <<Lock(l, mode), Unlock(l)>>

visit_start_locks == <<Lock("stdout", "mutex")>>

visit_feature_locks ==
  <<Lock("stdout", "mutex")>> \o Temp("cur_feature", "write")
  \o <<Lock("multi", "mutex")>>
  \o Temp("rules_progress", "write") \o Temp("progress", "write")
  \o <<<<"spawn">>>> \o Temp("progress_handle", "mutex")

\* `if let Some(handle) = self.progress_handle.lock().unwrap().take()`: the guard
\* of the scrutinee lives through the block that joins
visit_feature_end_locks(handle) ==
  <<Lock("progress_handle", "mutex")>>
  \o (IF handle THEN <<<<"join">>>> ELSE << >>)
  \o <<Unlock("progress_handle"), Lock("stdout", "mutex"),
       Lock("rules_progress", "write"), Lock("progress", "write")>>

visit_feature_error_locks == <<Lock("stdout", "mutex")>>

visit_rule_locks(row) ==
  <<Lock("rules_progress", "write")>>
  \o (IF row THEN Temp("cur_feature", "read") ELSE << >>)

visit_rule_end_locks == Temp("rules_progress", "write")

visit_scenario_locks(row, nested) ==
  <<Lock("progress", "write")>>
  \o (IF row
      THEN Temp("cur_feature", "read")
           \o (IF nested THEN Temp("rules_progress", "write") ELSE << >>)
      ELSE << >>)

visit_scenario_skipped_locks == << >>

\* a visit_scenario_end that tests the key in an `if let`, whose read guard lives
\* through the insert
visit_scenario_end_locks_if_let(recorded, row) ==
  <<Lock("scenarios", "read")>>
  \o (IF recorded THEN << >> ELSE Temp("scenarios", "write"))
  \o <<Unlock("scenarios"), Lock("progress", "write")>>
  \o (IF row THEN <<Lock("scenarios", "read")>> ELSE << >>)

\* the read guard of the `if` condition is dropped before the block is entered
visit_scenario_end_locks(recorded, row) ==
  Temp("scenarios", "read")
  \o (IF recorded THEN << >> ELSE Temp("scenarios", "write"))
  \o <<Lock("progress", "write")>>
  \o (IF row THEN <<Lock("scenarios", "read")>> ELSE << >>)

visit_step_locks == <<Lock("progress", "write")>>

visit_step_resolved_locks == << >>

visit_step_result_locks(row, res) ==
  Temp("cur_feature", "read")
  \o <<Lock("progress", "write")>>
  \o (IF row /\ res = "Fail" THEN Temp("scenarios", "write") ELSE << >>)

\* print_finish
visit_finish_locks ==
  <<Lock("stdout", "mutex")>>
  \o Temp("scenarios", "read") \o Temp("scenarios", "read")
  \o Temp("scenarios", "read") \o Temp("scenarios", "read")

\* the repaint thread holds the display's mutex from its start to its exit
HeldByRepaint == IF bg = "running" THEN {"multi"} ELSE {}

\* the caller, holding `held`, comes to a lock that is held: by itself, which
\* never ends, or by the repaint thread, which ends when the thread exits
RECURSIVE Blocks(_, _, _)
Blocks(ops, held, others) ==
  IF ops = << >> THEN FALSE
  ELSE IF Head(ops)[1] = "lock"
       THEN \/ Head(ops)[2] \in held \cup others
            \/ Blocks(Tail(ops), held \cup {Head(ops)[2]}, others)
  ELSE IF Head(ops)[1] = "unlock"
       THEN Blocks(Tail(ops), held \ {Head(ops)[2]}, others)
  ELSE IF Head(ops)[1] = "join"
       THEN Blocks(Tail(ops), held, {})
  ELSE Blocks(Tail(ops), held, others)

\* the lock sequences of the calls that may come next in protocol order
NextCallLocks ==
  IF pc = "init" THEN {visit_start_locks}
  ELSE IF pc # "idle" THEN {}
  ELSE IF feature = NoDoc
       THEN {visit_feature_locks, visit_feature_error_locks, visit_finish_locks}
  ELSE {visit_feature_end_locks(progress_handle), visit_rule_end_locks,
        visit_scenario_skipped_locks, visit_step_locks, visit_step_resolved_locks}
       \cup {visit_rule_locks(r \in DOMAIN rules_progress) : r \in Rules}
       \cup {visit_scenario_locks(s \in DOMAIN progress, rule # NoRule) :
               s \in Scenarios, rule \in Rules \cup {NoRule}}
       \cup {visit_scenario_end_locks(s \in DOMAIN scenarios, s \in DOMAIN progress) :
               s \in Scenarios}
       \cup {visit_step_result_locks(s \in DOMAIN progress, res) :
               s \in Scenarios, res \in TestResults}

(***************************************************************************)
(* Properties                                                              *)
(***************************************************************************)
Last(q) == q[Len(q)]

\* the buffers stdout received, in the order it received them
IsBuffer(item) == item[1] \in {"rule", "scenario"}
BufferItems(o) == SelectSeq(o, IsBuffer)
PrintedIds(o) == [i \in 1..Len(BufferItems(o)) |-> <<BufferItems(o)[i][1], BufferItems(o)[i][2]>>]
DocIds(doc) == [i \in 1..Len(DocOrder(doc)) |-> <<DocOrder(doc)[i].kind, DocOrder(doc)[i].id>>]

\* the summary a finished run printed
Summary == Last(out)[2]

\* the transition is a visit_step_result call with this result
IsStepResult(s, res) == \E rule \in RuleArgs(s) : visit_step_result(rule, s, res)

(* C1: Fail is absorbing.  Once a scenario's outcome is Fail no call changes it,
   and a step_result(Fail) that arrives when the outcome is Pass makes it Fail. *)
FailIsAbsorbing ==
  [][/\ \A s \in DOMAIN scenarios :
          scenarios[s] = "Fail" => s \in DOMAIN scenarios' /\ scenarios'[s] = "Fail"
     /\ \A s \in Scenarios :
          (/\ s \in DOMAIN scenarios
           /\ scenarios[s] = "Pass"
           /\ IsStepResult(s, "Fail")) => scenarios'[s] = "Fail"]_vars

(* C2: visit_feature_end prints no buffer before the repaint thread has exited,
   and the repaint thread draws no frame once a buffer of the feature is printed. *)
FlushAfterJoin ==
  [][/\ Len(BufferItems(out')) > Len(BufferItems(out)) => bg = "exited"
     /\ repaints' > repaints => BufferItems(out) = << >>]_vars

\* a feature whose rows were repainted and whose buffers were then printed
FlushAfterRepaint == repaints >= 1 /\ Len(BufferItems(out)) >= 1

(* C3: visit_feature_end returns.  While it waits in the join, the repaint
   thread can exit or has exited, whatever calls the feature received. *)
FeatureEndReturns ==
  pc = "fe_join" => ENABLED (RepaintExit \/ visit_feature_end_join)

(* C4: visit_feature_end prints the buffers in document order, each as the map
   holds it, each once, and leaves both maps empty when it returns. *)
BuffersInDocumentOrder ==
  [][/\ pc' = "fe_flush" =>
          PrintedIds(out') = SubSeq(DocIds(feature'), 1, flushed')
     /\ (pc = "fe_flush" /\ out' # out) =>
          /\ Len(out') = Len(out) + 1
          /\ Last(out')[3] = IF Last(out')[1] = "rule"
                             THEN rules_progress[Last(out')[2]].buf
                             ELSE progress[Last(out')[2]].buf
     /\ (pc = "fe_flush" /\ pc' = "idle") =>
          /\ PrintedIds(out) = DocIds(feature)
          /\ rules_progress' = EmptyMap
          /\ progress' = EmptyMap]_vars

\* a returned visit_feature_end that printed three buffers, the last one written
\* to although the first one never was
ThreeBuffersFlushed ==
  /\ pc = "idle"
  /\ feature = NoDoc
  /\ Len(BufferItems(out)) = 3
  /\ BufferItems(out)[1][3] = << >>
  /\ BufferItems(out)[3][3] # << >>

(* C5: at finish the failed, skipped and passed scenarios of the summary add up
   to the size of the outcome map, which is the number of scenarios the run
   ended (over all its features). *)
ScenarioTotals ==
  (pc = "finished" /\ DOMAIN scenarios \subseteq {p[2] : p \in ended}) =>
     /\ Summary.scenario_failed + Summary.scenario_skipped + Summary.scenario_passed
          = Cardinality(DOMAIN scenarios)
     /\ Cardinality(DOMAIN scenarios) = Cardinality(ended)

(* C6: skipped_count + fail_count never exceeds step_count, so the passed steps
   of the summary are computed without underflow and the three step counts add
   up to the step counter. *)
StepTotals ==
  /\ skipped_count + fail_count <= step_count
  /\ pc = "finished" =>
       /\ Summary.step_passed \in Nat
       /\ Summary.step_failed + Summary.step_skipped + Summary.step_passed = Summary.steps

\* a finished run with a failed and a skipped step
FinishedWithFailAndSkip ==
  pc = "finished" /\ Summary.step_failed = 1 /\ Summary.step_skipped = 1

(* C7: every step_result(Fail) adds one to the fail counter and makes the
   scenario's outcome Fail, whether the scenario has a row or not. *)
EveryFailureCounted ==
  [][\A s \in Scenarios :
       IsStepResult(s, "Fail") =>
         /\ fail_count' = fail_count + 1
         /\ s \in DOMAIN scenarios'
         /\ scenarios'[s] = "Fail"]_vars

(* C8: between visit_feature and visit_feature_end the two maps hold one pair
   for every declaration of the feature, structurally equal ones included. *)
OnePairPerDeclaration ==
  (pc = "idle" /\ feature # NoDoc) =>
     /\ DOMAIN rules_progress = DeclaredRules(feature)
     /\ DOMAIN progress = DeclaredScenarios(feature)
     /\ Cardinality(DOMAIN rules_progress) + Cardinality(DOMAIN progress)
          = Len(DocOrder(feature))

(* C9: every visit_feature_error adds one to the feature-error counter and
   changes nothing else but what stdout received. *)
FeatureErrorCounted ==
  [][(\E kind \in ErrorKinds, loclen \in LocLens, tw \in Widths :
        \E path \in ErrorPaths(kind) : visit_feature_error(kind, path, loclen, tw)) =>
       /\ feature_error_count' = feature_error_count + 1
       /\ UNCHANGED <<pc, bg, progress_handle, cur_feature, feature_count, rule_count,
                      step_count, skipped_count, fail_count, maps, feature>>]_vars

(* C10: each of the six counters moves by +1 only, and only on its own call. *)
CountersStepByOwnEvent ==
  [][/\ \A i \in 1..6 : counters'[i] \in {counters[i], counters[i] + 1}
     /\ feature_count' # feature_count =>
          \E doc \in scope.docs, path \in FeaturePaths : visit_feature(doc, path)
     /\ feature_error_count' # feature_error_count =>
          \E kind \in ErrorKinds, loclen \in LocLens, tw \in Widths :
            \E path \in ErrorPaths(kind) : visit_feature_error(kind, path, loclen, tw)
     /\ rule_count' # rule_count => \E rule \in Rules : visit_rule_end(rule)
     /\ step_count' # step_count =>
          \E s \in Scenarios : \E rule \in RuleArgs(s) : visit_step(rule, s)
     /\ fail_count' # fail_count => \E s \in Scenarios : IsStepResult(s, "Fail")
     /\ skipped_count' # skipped_count =>
          \E s \in Scenarios :
            IsStepResult(s, "Skipped") \/ IsStepResult(s, "Unimplemented")]_vars

\* a run in which every counter has moved
AllCountersMoved ==
  /\ feature_count >= 1
  /\ feature_error_count >= 1
  /\ rule_count >= 1
  /\ step_count >= 2
  /\ fail_count >= 1
  /\ skipped_count >= 1

\* the transition is a visit_scenario_end call for s
IsScenarioEnd(s) == \E rule \in RuleArgs(s) : visit_scenario_end(rule, s)

(* C11: visit_scenario_end records Pass for s exactly when s has no outcome yet
   and leaves an outcome that exists as it is; an outcome is Fail only from a
   failed step, so a scenario without one ends as Pass. *)
PassOnlyWhenNoOutcome ==
  [][\A s \in Scenarios :
       /\ IsScenarioEnd(s) =>
            IF s \in DOMAIN scenarios
            THEN scenarios' = scenarios
            ELSE /\ DOMAIN scenarios' = DOMAIN scenarios \cup {s}
                 /\ scenarios'[s] = "Pass"
                 /\ \A t \in DOMAIN scenarios : scenarios'[t] = scenarios[t]
       /\ (/\ s \in DOMAIN scenarios'
           /\ scenarios'[s] # "Pass"
           /\ ~(s \in DOMAIN scenarios /\ scenarios[s] = scenarios'[s]))
            => scenarios'[s] = "Fail" /\ IsStepResult(s, "Fail")]_vars

\* one scenario ended with its failure kept, another ended as passed
EndedFailedAndPassed ==
  /\ \E s \in DOMAIN progress :
        s \in DOMAIN scenarios /\ scenarios[s] = "Fail" /\ progress[s].pb.msg = "failed"
  /\ \E t \in DOMAIN scenarios : scenarios[t] = "Pass"

\* what a transition appended to the buffer of scenario s
Appended(s) == SubSeq(progress'[s].buf, Len(progress[s].buf) + 1, Len(progress'[s].buf))

(* C12: a Skipped or Unimplemented result of a scenario that has a buffer adds
   one to the skipped counter and one informational line to the buffer,
   Unimplemented the "not implemented" marker as well, and leaves the fail
   counter, the outcomes and the scenario's row as they are. *)
SkipIsNotAnError ==
  [][\A s \in DOMAIN progress : \A res \in {"Skipped", "Unimplemented"} :
       IsStepResult(s, res) =>
         /\ skipped_count' = skipped_count + 1
         /\ fail_count' = fail_count
         /\ scenarios' = scenarios
         /\ progress'[s].pb = progress[s].pb
         /\ Appended(s)[1][1] = "StepSkip"
         /\ Appended(s) = IF res = "Unimplemented"
                          THEN <<Appended(s)[1], <<"NotImplemented">>>>
                          ELSE <<Appended(s)[1]>>]_vars

\* a step that was reported as not implemented, no step having failed
UnimplementedReported ==
  /\ skipped_count >= 1
  /\ fail_count = 0
  /\ \E s \in DOMAIN progress :
        /\ progress[s].buf # << >>
        /\ Last(progress[s].buf) = <<"NotImplemented">>

\* the buffer of scenario s: in the map until visit_feature_end prints it
PrintedBufs(s) == SelectSeq(out, LAMBDA item : item[1] = "scenario" /\ item[2] = s)
ScenarioBuf(s) ==
  IF s \in DOMAIN progress THEN progress[s].buf
  ELSE IF PrintedBufs(s) # << >> THEN PrintedBufs(s)[1][3]
  ELSE << >>

\* the step lines of a buffer, by result
IsStepLine(unit) == unit[1] \in {"StepPass", "StepFail", "StepSkip"}
StepKinds(buf) == [i \in 1..Len(SelectSeq(buf, IsStepLine)) |-> SelectSeq(buf, IsStepLine)[i][1]]

\* the k-th step failed, the steps before it passed, the steps after it were skipped
FailsAt(ks, k) ==
  /\ ks[k] = "StepFail"
  /\ \A i \in 1..Len(ks) : i < k => ks[i] = "StepPass"
  /\ \A i \in 1..Len(ks) : i > k => ks[i] = "StepSkip"

(* C13: when the k-th of the n steps of the scenario failed, the earlier ones
   passed and the later ones were skipped, the scenario's outcome is Fail, the
   fail counter is 1, the skipped counter n-k and the step counter n, and the
   summary says so. *)
FailedScenarioCounts ==
  \A s \in Scenarios : \A k \in 1..Len(StepKinds(ScenarioBuf(s))) :
     (pending = 0 /\ FailsAt(StepKinds(ScenarioBuf(s)), k)) =>
        /\ s \in DOMAIN scenarios
        /\ scenarios[s] = "Fail"
        /\ fail_count = 1
        /\ skipped_count = Len(StepKinds(ScenarioBuf(s))) - k
        /\ step_count = Len(StepKinds(ScenarioBuf(s)))
        /\ pc = "finished" =>
             /\ Summary.scenario_failed = 1
             /\ Summary.scenario_passed = 0
             /\ Summary.step_failed = 1
             /\ Summary.step_skipped = Len(StepKinds(ScenarioBuf(s))) - k
             /\ Summary.steps = Len(StepKinds(ScenarioBuf(s)))

\* the run of a scenario with steps [Pass, Fail, Skipped] has finished
PassFailSkippedFinished ==
  /\ pc = "finished"
  /\ \E s \in Scenarios : StepKinds(ScenarioBuf(s)) = <<"StepPass", "StepFail", "StepSkip">>

\* the clauses joined by ", "
RECURSIVE CommaJoin(_)
CommaJoin(q) ==
  IF q = << >> THEN ""
  ELSE IF Len(q) = 1 THEN q[1]
  ELSE q[1] \o ", " \o CommaJoin(Tail(q))

\* "<n> failed" and "<n> skipped" where n > 0, "<n> passed" always, in that order
Clauses(failed, skipped, passed) ==
  (IF failed > 0 THEN <<ToString(failed) \o " failed">> ELSE << >>)
  \o (IF skipped > 0 THEN <<ToString(skipped) \o " skipped">> ELSE << >>)
  \o <<ToString(passed) \o " passed">>

(* C14: the summary reads "<N> features[ (<E> errored)][, <R> rules]",
   "<N> scenarios (...)", "<N> steps (...)": the errored, rules, failed and
   skipped clauses are there exactly when their count is above 0, "<N> passed"
   always, the clauses joined by ", " in the order failed, skipped, passed.
   One feature with one scenario of 3 passing steps gives
   "1 scenarios (1 passed)" and "3 steps (3 passed)". *)
SummaryShape ==
  pc = "finished" =>
    /\ Summary.text[1] =
         CommaJoin(<<ToString(feature_count) \o " features"
                       \o (IF feature_error_count > 0
                           THEN " (" \o ToString(feature_error_count) \o " errored)"
                           ELSE "")>>
                   \o (IF rule_count > 0 THEN <<ToString(rule_count) \o " rules">> ELSE << >>))
    /\ Summary.text[2] =
         ToString(Cardinality(DOMAIN scenarios)) \o " scenarios ("
         \o CommaJoin(Clauses(Count(scenarios, "Fail"), Count(scenarios, "Skip"),
                              Count(scenarios, "Pass")))
         \o ")"
    /\ Summary.text[3] =
         ToString(step_count) \o " steps ("
         \o CommaJoin(Clauses(fail_count, skipped_count,
                              step_count - skipped_count - fail_count))
         \o ")"
    /\ (/\ feature_count = 1
        /\ Cardinality(DOMAIN scenarios) = 1
        /\ step_count = 3
        /\ fail_count = 0
        /\ skipped_count = 0) =>
          /\ Summary.text[2] = "1 scenarios (1 passed)"
          /\ Summary.text[3] = "3 steps (3 passed)"

\* the summary of one feature, one scenario, 3 passing steps
ThreePassingSteps ==
  /\ pc = "finished"
  /\ Summary.text = <<"1 features", "1 scenarios (1 passed)", "3 steps (3 passed)">>

\* the call of writeln_cmt has returned; what it wrote
LayoutReturned == pc = "returned" /\ "tw" \in DOMAIN scope
Lines == out[1].lines
LastLine == Lines[Len(Lines)]
\* the characters of a message and its spaces
MessageLen(words) == Len(wrap_iter(words, WrappedWidth, << >>)[1])

(* C15, as the spec states it: for a message, an indent and an annotation all
   shorter than the terminal width W, the line that carries the annotation has
   length exactly W, the annotation ending in the rightmost column. *)
AnnotationInLastColumn ==
  (/\ LayoutReturned
   /\ scope.indent + MessageLen(scope.s) < scope.tw
   /\ scope.cmt < scope.tw) => Len(LastLine) = scope.tw

(* C15, amended: for an indent shorter than W and an annotation of at most W-2
   characters, the line that carries the annotation is the padding target of
   W - annotation - 2 characters, one space and the annotation: its length is
   exactly W-1, the annotation ending one column left of the rightmost; an
   annotation of W-1 characters ends in the rightmost column. *)
AnnotationBeforeLastColumn ==
  (LayoutReturned /\ scope.indent < scope.tw /\ scope.cmt < scope.tw) =>
     /\ Len(LastLine) = IF scope.cmt <= scope.tw - 2 THEN scope.tw - 1 ELSE scope.tw
     /\ SubSeq(LastLine, Len(LastLine) - scope.cmt, Len(LastLine))
          = <<" ">> \o Repeat("#", scope.cmt)

\* a message wrapped onto two lines, its annotation fitted onto the second
AnnotationOnWrappedLine ==
  /\ LayoutReturned
  /\ scope.indent >= 1
  /\ scope.cmt >= 1
  /\ Len(Lines) = 2
  /\ LastLine[scope.indent + 1] = "x"
  /\ Len(LastLine) = scope.tw - 1

\* the characters of the lines, the characters of the words
RECURSIVE Concat(_)
Concat(ls) == IF ls = << >> THEN << >> ELSE Head(ls) \o Concat(Tail(ls))
RECURSIVE Sum(_)
Sum(q) == IF q = << >> THEN 0 ELSE Head(q) + Sum(Tail(q))
IsWordChar(ch) == ch = "x"

\* the line that carries the annotation, without the separator and the annotation
PaddedLine == SubSeq(LastLine, 1, Len(LastLine) - scope.cmt - 1)

\* the padding target is max(0, W - annotation - 2); the last wrapped line is padded
\* to it, or a line of that many spaces is added when the last wrapped line is
\* longer; every character of the message is printed
PaddedToTarget ==
  /\ Len(PaddedLine) = IF scope.tw - scope.cmt - 2 > 0 THEN scope.tw - scope.cmt - 2 ELSE 0
  /\ (\A i \in 1..Len(PaddedLine) : PaddedLine[i] = " ") =>
        /\ Len(Lines) >= 2
        /\ Len(Lines[Len(Lines) - 1]) > Len(PaddedLine)
  /\ Len(SelectSeq(Concat(Lines), IsWordChar)) = Sum(scope.s)
  /\ SubSeq(LastLine, Len(LastLine) - scope.cmt, Len(LastLine))
       = <<" ">> \o Repeat("#", scope.cmt)

(* C20: for every terminal width W, annotation and indent, wrap_with_comment
   subtracts no width below zero, pads to max(0, W - annotation - 2) on the
   last wrapped line or on a line of its own, and prints the whole message
   clear of the annotation. *)
PaddingExactForAllWidths ==
  "tw" \in DOMAIN scope =>
     /\ pc # "panicked"
     /\ pc = "returned" =>
          /\ out[1].w = scope.tw - scope.indent
          /\ PaddedToTarget

\* the transition is a call about scenario s other than visit_scenario_skipped
IsScenarioCall(s) ==
  \E rule \in RuleArgs(s) :
     \/ visit_scenario(rule, s)
     \/ visit_step(rule, s)
     \/ visit_scenario_end(rule, s)
     \/ \E res \in TestResults : visit_step_result(rule, s, res)

(* C16: a call about a rule or a scenario that has no row is fatal: visit_rule,
   visit_rule_end, visit_scenario, visit_step, visit_step_result and
   visit_scenario_end panic, none of them returns having skipped its effects. *)
MissingRowIsFatal ==
  [][/\ \A s \in Scenarios :
          (s \notin DOMAIN progress /\ IsScenarioCall(s)) => pc' = "panicked"
     /\ \A rule \in Rules :
          (/\ rule \notin DOMAIN rules_progress
           /\ visit_rule(rule) \/ visit_rule_end(rule)) => pc' = "panicked"]_vars

\* the cells of column n, header first; the field printed for column n of line i
Column(table, n) ==
  <<table.header[n]>>
  \o [i \in 1..Len(SelectSeq(table.rows, LAMBDA row : Len(row) >= n)) |->
        SelectSeq(table.rows, LAMBDA row : Len(row) >= n)[i][n]]
RECURSIVE Max(_)
Max(q) == IF Len(q) = 1 THEN q[1] ELSE IF q[1] >= Max(Tail(q)) THEN q[1] ELSE Max(Tail(q))
ColumnWidth(table, n) == Max([i \in 1..Len(Column(table, n)) |-> Column(table, n)[i].len])
Field(i, n) == out[i][2 * n + 1]

\* the field is the cell's text at the left, or at the right, of the column's
\* width, with one space on each side
LeftAlignedIn(field, cell, width) ==
  field = <<" ">> \o CellText(cell) \o Repeat(" ", width - cell.len) \o <<" ">>
RightAlignedIn(field, cell, width) ==
  field = <<" ">> \o Repeat(" ", width - cell.len) \o CellText(cell) \o <<" ">>

\* the table is printed, every column as wide as its longest cell, every cell
\* with a space on each side, the numeric cells of the rows at the right
TableRendered ==
  /\ pc = "returned"
  /\ Len(out) = 1 + Len(scope.table.rows)
  /\ \A n \in 1..Len(scope.table.header) :
        LeftAlignedIn(Field(1, n), scope.table.header[n], ColumnWidth(scope.table, n))
  /\ \A i \in 1..Len(scope.table.rows) : \A n \in 1..Len(scope.table.rows[i]) :
        IF scope.table.rows[i][n].numeric
        THEN RightAlignedIn(Field(i + 1, n), scope.table.rows[i][n],
                            ColumnWidth(scope.table, n))
        ELSE LeftAlignedIn(Field(i + 1, n), scope.table.rows[i][n],
                           ColumnWidth(scope.table, n))

(* C17: a step table is printed with each column as wide as the longest of its
   header cell and its row cells, each cell with one space on each side, the
   numeric cells of the rows right-aligned and the other cells left-aligned;
   header lengths 1, 5, 3 with the row "10", "abc", "2" give the widths 2, 5, 3. *)
TableColumnsAligned ==
  ("table" \in DOMAIN scope /\ pc # "init" /\ ~IndexOutOfBounds(scope.table)) =>
     /\ TableRendered
     /\ scope.table = ExampleTable =>
          [n \in 1..3 |-> Len(Field(1, n)) - 2] = <<2, 5, 3>>

\* the table of the example is printed, "10" and "2" at the right of their columns
ExampleTablePrinted ==
  /\ pc = "returned"
  /\ scope = [table |-> ExampleTable]
  /\ Field(2, 1) = <<" ", "9", "9", " ">>
  /\ Field(2, 2) = <<" ", "a", "a", "a", " ", " ", " ">>
  /\ Field(2, 3) = <<" ", " ", " ", "9", " ">>

\* the unit that follows the unit `label` in what was appended, if there is one
BodyOf(units, label) ==
  {units[i + 1] : i \in {j \in 1..(Len(units) - 1) : units[j] = <<label>>}}
HasSection(units, label) == \E i \in 1..Len(units) : units[i] = <<label>>

(* C18: a failed step's diagnostics hold a section "Captured stdout" exactly
   when the captured stdout is not empty, its body the captured stdout, a
   section "Captured stderr" exactly when the captured stderr is not empty,
   its body the captured stderr, and a closing rule at the end. *)
CapturedStreamsPrinted ==
  [][\A s \in DOMAIN progress : \A cap \in Captures :
       (\E rule \in RuleArgs(s) :
           visit_step_result_captured(rule, s, "Fail", cap.stdout, cap.stderr)) =>
         /\ HasSection(Appended(s), "Captured stdout") <=> cap.stdout # ""
         /\ BodyOf(Appended(s), "Captured stdout") \subseteq {<<"Text", cap.stdout>>}
         /\ HasSection(Appended(s), "Captured stderr") <=> cap.stderr # ""
         /\ BodyOf(Appended(s), "Captured stderr") \subseteq {<<"Text", cap.stderr>>}
         /\ Last(Appended(s)) = <<"Rule">>]_vars

\* the transition is one of the calls a runner makes between visit_feature and
\* visit_feature_end
IsEntityEvent ==
  \/ \E rule \in Rules : visit_rule(rule) \/ visit_rule_end(rule)
  \/ \E s \in Scenarios : IsScenarioCall(s)
  \/ \E s \in Scenarios : \E rule \in RuleArgs(s) : visit_scenario_skipped(rule, s)
  \/ visit_step_resolved

(* C19: between visit_feature and visit_feature_end the calls about rules,
   scenarios and steps leave the output stream as it is, and no buffer of the
   feature is in what was printed: they write to the buffers of the rows only. *)
EventsWriteOnlyToBuffers ==
  [][IsEntityEvent => out' = out /\ BufferItems(out') = << >>]_vars

\* a feature in progress whose rule and scenario buffers both hold text, none printed
BuffersFilledNothingPrinted ==
  /\ InFeature
  /\ \E r \in DOMAIN rules_progress : rules_progress[r].buf # << >>
  /\ \E s \in DOMAIN progress : progress[s].buf # << >>
  /\ BufferItems(out) = << >>

\* the row's bar shows this icon and this message
Shows(pb, icon, msg) ==
  /\ pb.style \in {sty_scenario_finish(indent, icon) : indent \in {0, 1}}
  /\ pb.msg = msg

(* C21: after visit_scenario_end for a scenario that has a row, the row's bar is
   finished and shows the pass icon and "passed" exactly when the recorded
   outcome is Pass, the fail icon and "failed" exactly when it is Fail, the
   skip icon and "skipped" exactly when it is Skip. *)
FinishedRowShowsOutcome ==
  [][\A s \in DOMAIN progress :
       IsScenarioEnd(s) =>
         /\ BarIsFinished(progress'[s].pb)
         /\ progress'[s].pb.pos = progress'[s].pb.len
         /\ Shows(progress'[s].pb, "pass", "passed") <=> scenarios'[s] = "Pass"
         /\ Shows(progress'[s].pb, "fail", "failed") <=> scenarios'[s] = "Fail"
         /\ Shows(progress'[s].pb, "skip", "skipped") <=> scenarios'[s] = "Skip"]_vars

\* the row of a scenario that failed was finished as failed
RowFinishedAsFailed ==
  \E s \in DOMAIN progress :
     /\ s \in DOMAIN scenarios
     /\ scenarios[s] = "Fail"
     /\ Shows(progress[s].pb, "fail", "failed")
     /\ BarIsFinished(progress[s].pb)
     /\ progress[s].pb.pos = progress[s].pb.len

(* C22: no call issued in protocol order comes to a lock that is held: the
   repaint thread has exited whenever visit_feature may be called, since
   visit_feature_end joined it, and no call acquires a lock it holds. *)
NoCallBlocksOnALock ==
  \A ops \in NextCallLocks : ~Blocks(ops, {}, HeldByRepaint)

\* a second feature may start after the repaint thread of the first has held the
\* display's mutex and exited
NextFeatureFindsMutexFree ==
  /\ pc = "idle"
  /\ feature = NoDoc
  /\ feature_count = 1
  /\ feature_count < scope.features
  /\ bg = "exited"
  /\ repaints > 0

\* the transition is a visit_scenario_skipped call for s
IsScenarioSkipped(s) == \E rule \in RuleArgs(s) : visit_scenario_skipped(rule, s)

(* C23: Skip is never recorded.  Every recorded outcome is Pass or Fail,
   visit_scenario_skipped changes nothing, a skipped step leaves the outcomes
   as they are, visit_scenario_end records Pass for a scenario without an
   outcome, and the summary counts no skipped scenario. *)
SkipIsNeverRecorded ==
  [][/\ \A s \in DOMAIN scenarios' : scenarios'[s] \in {"Pass", "Fail"}
     /\ \A s \in Scenarios :
          /\ IsScenarioSkipped(s) => UNCHANGED vars
          /\ (IsStepResult(s, "Skipped") \/ IsStepResult(s, "Unimplemented")) =>
                scenarios' = scenarios
          /\ (IsScenarioEnd(s) /\ s \notin DOMAIN scenarios) => scenarios'[s] = "Pass"
     /\ pc' = "finished" => Last(out')[2].scenario_skipped = 0]_vars

\* a finished run whose only step was skipped: its scenario counts as passed
SkippedScenarioCountedAsPassed ==
  /\ pc = "finished"
  /\ Summary.steps = 1
  /\ Summary.step_skipped = 1
  /\ Summary.scenario_passed = 1
  /\ Summary.scenario_skipped = 0

(* C24: at finish the passed steps of the summary are the visit_step_result
   calls with Pass of the run, whatever the calls were: also when a visit_step
   was about a scenario that has no row or got no result. *)
PassedStepsAreThePassResults ==
  pc = "finished" => Summary.step_passed = pass_results

\* the buffers of the rows of a map
Bufs(m) == [k \in DOMAIN m |-> m[k].buf]
\* the transition is a visit_rule or a visit_rule_end call for r
IsRuleCall(r) == visit_rule(r) \/ visit_rule_end(r)

(* C25: a call about one entity writes to that entity's buffer only.  The calls
   about scenario s leave the buffers of the other scenarios and of all the
   rules as they are, and change at most the position of a rule's bar; the
   calls about rule r leave the buffers of the scenarios and of the other rules
   as they are. *)
EventsTouchOwnBufferOnly ==
  [][/\ \A s \in Scenarios :
          IsScenarioCall(s) =>
            /\ \A t \in DOMAIN progress \ {s} :
                  t \in DOMAIN progress' /\ progress'[t].buf = progress[t].buf
            /\ Bufs(rules_progress') = Bufs(rules_progress)
            /\ \A q \in DOMAIN rules_progress :
                  [rules_progress'[q].pb EXCEPT !.pos = rules_progress[q].pb.pos]
                    = rules_progress[q].pb
     /\ \A r \in RuleSubjects :
          IsRuleCall(r) =>
            /\ Bufs(progress') = Bufs(progress)
            /\ \A q \in DOMAIN rules_progress \ {r} :
                  q \in DOMAIN rules_progress' /\ rules_progress'[q].buf = rules_progress[q].buf]_vars

\* of two rules and of their scenarios, one has text in its buffer and the other
\* has none, and the bar of the rule whose scenario started has advanced
OneRuleAndOneScenarioWritten ==
  /\ InFeature
  /\ \E q, r \in DOMAIN rules_progress :
       /\ rules_progress[q].buf # << >>
       /\ rules_progress[r].buf = << >>
  /\ \E s, t \in DOMAIN progress :
       /\ progress[s].buf # << >>
       /\ progress[t].buf = << >>
  /\ \E q \in DOMAIN rules_progress : rules_progress[q].pb.pos > 0

\* what one call appends to the buffer of the entity it is about
EventUnits(e) ==
  IF e.ev = "rule" THEN <<Unit("Rule", 1, cur_feature)>>
  ELSE IF e.ev = "scenario"
       THEN <<Unit("Scenario", IF e.rule # NoRule THEN 2 ELSE 1, cur_feature)>>
  ELSE IF e.ev = "scenario_end" THEN <<Plain("")>>
  ELSE IF e.ev = "step_result"
       THEN ResultUnits(e.res, IF e.rule # NoRule THEN 3 ELSE 2, cur_feature)
            \o IF e.res = "Fail"
               THEN CapturedSections(e.captured_stdout, e.captured_stderr)
               ELSE << >>
  ELSE << >>

\* the buffer, the outcome and the counts that the calls about one entity yield when
\* they are taken alone, in their order
RECURSIVE ReplayBuf(_)
ReplayBuf(h) ==
  IF h = << >> THEN << >>
  ELSE ReplayBuf(SubSeq(h, 1, Len(h) - 1)) \o EventUnits(h[Len(h)])

\* the feature gave the rule or the scenario k a row: a result about a scenario
\* without a row returns before it counts or records anything (lines 684-687)
HasRow(k) ==
  IF k[1] = "rule" THEN k[2] \in DeclaredRules(RuleAndScenarioDoc)
  ELSE k[2] \in DeclaredScenarios(RuleAndScenarioDoc)

RECURSIVE ReplayOutcome(_, _)
ReplayOutcome(h, row) ==
  IF h = << >> THEN "None"
  ELSE LET before == ReplayOutcome(SubSeq(h, 1, Len(h) - 1), row)
           e == h[Len(h)]
       IN IF e.ev = "step_result" /\ e.res = "Fail" /\ row THEN "Fail"
          ELSE IF e.ev = "scenario_end" /\ before = "None" THEN "Pass"
          ELSE before

IsStepEvent(k, e) == e.ev = "step"
IsFailEvent(k, e) == e.ev = "step_result" /\ e.res = "Fail" /\ HasRow(k)
IsSkipEvent(k, e) ==
  e.ev = "step_result" /\ e.res \in {"Skipped", "Unimplemented"} /\ HasRow(k)
IsRuleEndEvent(k, e) == e.ev = "rule_end"
Delivered(P(_, _)) ==
  Cardinality({p \in UNION {{k} \X (1..Len(history[k])) : k \in DOMAIN history} :
                 P(p[1], history[p[1]][p[2]])})

(* C26: what a feature prints and what the run counts depend on the calls about
   each rule and each scenario in their own order only, not on how the calls
   about different entities are interleaved: every buffer, before and after it
   is printed, is what the calls about its entity yield taken alone, the
   buffers are printed in document order, and the outcomes and the counters
   are those of the calls delivered. *)
TranscriptFollowsEntityHistories ==
  pc # "panicked" =>
    /\ \A s \in DOMAIN progress :
          progress[s].buf = ReplayBuf(HistoryOf(<<"scenario", s>>))
    /\ \A r \in DOMAIN rules_progress :
          rules_progress[r].buf = ReplayBuf(HistoryOf(<<"rule", r>>))
    /\ \A i \in 1..Len(BufferItems(out)) :
          BufferItems(out)[i][3]
            = ReplayBuf(HistoryOf(<<BufferItems(out)[i][1], BufferItems(out)[i][2]>>))
    /\ (pc = "finished" /\ feature_count = 1) =>
          PrintedIds(out) = DocIds(RuleAndScenarioDoc)
    /\ \A s \in Scenarios :
          ReplayOutcome(HistoryOf(<<"scenario", s>>), HasRow(<<"scenario", s>>)) =
            IF s \in DOMAIN scenarios THEN scenarios[s] ELSE "None"
    /\ step_count = Delivered(IsStepEvent)
    /\ fail_count = Delivered(IsFailEvent)
    /\ skipped_count = Delivered(IsSkipEvent)
    /\ rule_count = Delivered(IsRuleEndEvent)

\* a finished run that printed three buffers with text, the calls about the rule and
\* the two scenarios having come in some interleaving
ThreeEntitiesPrinted ==
  /\ pc = "finished"
  /\ Len(BufferItems(out)) = 3
  /\ \A i \in 1..3 : BufferItems(out)[i][3] # << >>
  /\ \E s \in Scenarios : Len(HistoryOf(<<"scenario", s>>)) >= 2

=============================================================================
